---- MODULE Spec2Model ----
(***************************************************************************)
(* State-machine model of the VoiceDi_MIPT data preparation code:          *)
(*   - MyCollator          (src/utils/iemocap_loader_ft.py, 108-148)        *)
(*   - IEMOCAP dataset     (src/utils/iemocap_loader_ft.py, 15-105)         *)
(*   - corpus-build script (src/Decomposition/make_spect_f0.py)             *)
(* Each of the three is a specification of its own (SpecCollate,           *)
(* SpecIndex, SpecCorpus); the variables of the other two stay at their     *)
(* initial values.                                                          *)
(***************************************************************************)
EXTENDS Integers, Sequences, FiniteSets, TLC

VARIABLES
    \* MyCollator and the call in progress
    max_len_seq, max_len_pad, cpc, batch, crops, ret,
    \* IEMOCAP dataset object
    dpc, manifest, selected_emos, mode, meta, meta_train, meta_val, meta_test,
    class_weight, len_ret, get_ret,
    \* corpus-build script
    targetDir_emb, spk2gen, tree, kpc, spk, fidx, uttr_embs, log

collVars == <<max_len_seq, max_len_pad, cpc, batch, crops, ret>>
dsVars == <<dpc, manifest, selected_emos, mode, meta, meta_train, meta_val, meta_test,
            class_weight, len_ret, get_ret>>
corpVars == <<targetDir_emb, spk2gen, tree, kpc, spk, fidx, uttr_embs, log>>
vars == <<collVars, dsVars, corpVars>>

----------------------------------------------------------------------------
(* Bounds of the model *)

\* longest utterance, in frames
MaxFrames == 3
\* largest configured max_len_seq
MaxLenSeq == 2
\* largest configured max_len_pad
MaxLenPad == 3
\* largest batch handed to the collator
MaxBatch == 2
\* mel bins per spectrogram frame
NumMels == 1
\* most rows of a manifest
MaxRows == 3
\* most speaker directories under rootDir
MaxSpeakers == 3

----------------------------------------------------------------------------
(* Python / numpy primitives *)

Min(x, y) == IF x <= y THEN x ELSE y
Max(x, y) == IF x >= y THEN x ELSE y

\* s[lo:hi] for 0 <= lo, 0 <= hi: the stop is clamped to len(s), an empty
\* range gives the empty sequence.  Indices are 0-based as in Python.
Slice(s, lo, hi) ==
    LET h == Min(hi, Len(s))
    IN  IF lo >= h THEN <<>> ELSE [i \in 1..(h - lo) |-> s[lo + i]]

\* np.random.randint(low, high): the integers of [low, high), high excluded.
Randint(low, high) == low..(high - 1)

\* NpClip without the upper limit
NpClipLowOnly(a, lo, hi) ==
    [i \in 1..Len(a) |-> [j \in 1..Len(a[i]) |-> Max(lo, a[i][j])]]

\* np.clip(a, lo, hi) on a 2-D array (a sequence of rows)
NpClip(a, lo, hi) ==
    [i \in 1..Len(a) |-> [j \in 1..Len(a[i]) |-> Max(lo, Min(a[i][j], hi))]]

\* np.pad(a, ((0, n), (0, 0)), "constant", constant_values=fill) for n >= 0:
\* n rows of `width` columns, all `fill`, appended.
NpPad(a, n, width, fill) ==
    a \o [i \in 1..n |-> [j \in 1..width |-> fill]]

\* c[:, np.newaxis]: a 1-D array as a column
NewAxis(c) == [i \in 1..Len(c) |-> <<c[i]>>]

----------------------------------------------------------------------------
(* Inputs of the collator: tokens as __getitem__ returns them               *)

\* spectrogram values: below 0, inside [0,1] at its top, above 1
SpecVals == <<-1, 1, 2>>
\* pitch values as opaque floats; "-1e10" marks an unvoiced frame
F0Vals == <<"-1e10", "-0.5", "1.5">>
Embs == <<"embA", "embB">>

Frame(seed, i) ==
    [j \in 1..NumMels |-> SpecVals[((seed + i + j) % Len(SpecVals)) + 1]]

\* an utterance of L frames; its pitch contour has L entries as well
Token(L, seed) ==
    [aa  |-> [i \in 1..L |-> Frame(seed, i)],
     b   |-> Embs[seed + 1],
     c   |-> [i \in 1..L |-> F0Vals[((seed + i) % Len(F0Vals)) + 1]],
     emo |-> seed % 2]

Tokens == {Token(L, seed) : L \in 0..MaxFrames, seed \in 0..(Len(Embs) - 1)}
Batches == UNION {[1..n -> Tokens] : n \in 1..MaxBatch}

NoLeft == 0 - 1

----------------------------------------------------------------------------
(* MyCollator.__call__ *)

\* CropToken with the pitch window one frame late
CropTokenPitchLate(token, left, seqmax) ==
    IF Len(token.aa) > seqmax
    THEN [len_crop |-> seqmax,
          left     |-> left,
          choices  |-> Randint(0, Len(token.aa) - seqmax),
          a        |-> Slice(token.aa, left, left + seqmax),
          c        |-> Slice(token.c, left + 1, left + 1 + seqmax)]
    ELSE [len_crop |-> Len(token.aa),
          left     |-> NoLeft,
          choices  |-> {},
          a        |-> token.aa,
          c        |-> token.c]

\* lines 119-126: the crop of one token, for the offset `left` randint drew.
\* `choices` records the set the offset is drawn from.
CropToken(token, left, seqmax) ==
    IF Len(token.aa) > seqmax
    THEN [len_crop |-> seqmax,
          left     |-> left,
          choices  |-> Randint(0, Len(token.aa) - seqmax),
          a        |-> Slice(token.aa, left, left + seqmax),
          c        |-> Slice(token.c, left, left + seqmax)]
    ELSE [len_crop |-> Len(token.aa),
          left     |-> NoLeft,
          choices  |-> {},
          a        |-> token.aa,
          c        |-> token.c]

\* lines 127-135: clip, then pad spectrogram and pitch to max_len_pad.
\* np.pad raises ValueError for a negative pad width.
PadToken(cr, padmax) ==
    LET a     == NpClip(cr.a, 0, 1)
        padA  == padmax - Len(a)
        padC  == padmax - Len(cr.c)
    IN  IF padA < 0 \/ padC < 0
        THEN [raised |-> TRUE, a_pad |-> <<>>, c_pad |-> <<>>]
        ELSE [raised |-> FALSE,
              a_pad  |-> NpPad(a, padA, NumMels, 0),
              c_pad  |-> NpPad(NewAxis(cr.c), padC, 1, "-1e10")]

\* The offsets the loop can draw for batch bt: one per cropped token, NoLeft
\* for a token that is not cropped.
LeftChoices(bt, seqmax) ==
    {ls \in [1..Len(bt) -> NoLeft..MaxFrames] :
        \A i \in 1..Len(bt) :
            IF Len(bt[i].aa) > seqmax
            THEN ls[i] \in Randint(0, Len(bt[i].aa) - seqmax)
            ELSE ls[i] = NoLeft}

\* index of the first token whose padding raises, 0 when none does
FirstRaise(bt, ls, seqmax, padmax) ==
    LET bad == {i \in 1..Len(bt) :
                   PadToken(CropToken(bt[i], ls[i], seqmax), padmax).raised}
    IN  IF bad = {} THEN 0 ELSE CHOOSE i \in bad : \A k \in bad : i <= k

\* lines 139-148: zip and stack the padded tokens
StackBatch(bt, ls, seqmax, padmax) ==
    LET cr(i) == CropToken(bt[i], ls[i], seqmax)
        pd(i) == PadToken(cr(i), padmax)
    IN  [melsp   |-> [i \in 1..Len(bt) |-> pd(i).a_pad],
         spk_emb |-> [i \in 1..Len(bt) |-> bt[i].b],
         pitch   |-> [i \in 1..Len(bt) |-> pd(i).c_pad],
         len_org |-> [i \in 1..Len(bt) |-> cr(i).len_crop]]

\* One call of the collator on one batch.  The call either returns the four
\* stacked arrays or raises at the first token np.pad rejects; the tokens
\* after that one are never processed.
MyCollator_call ==
    /\ cpc = "idle"
    /\ \E bt \in Batches :
         \E ls \in LeftChoices(bt, max_len_seq) :
            LET r == FirstRaise(bt, ls, max_len_seq, max_len_pad)
                n == IF r = 0 THEN Len(bt) ELSE r
            IN  \* no offset is drawn for a token behind the one that raises
                /\ \A i \in (n + 1)..Len(bt) : ls[i] <= 0
                /\ batch' = bt
                /\ crops' = [i \in 1..n |-> CropToken(bt[i], ls[i], max_len_seq)]
                /\ IF r = 0
                   THEN /\ cpc' = "returned"
                        /\ ret' = <<StackBatch(bt, ls, max_len_seq, max_len_pad)>>
                   ELSE /\ cpc' = "raised"
                        /\ ret' = <<>>
    /\ UNCHANGED <<max_len_seq, max_len_pad, dsVars, corpVars>>

\* The data loader takes the returned batch and asks for the next one.
NextBatch ==
    /\ cpc = "returned"
    /\ cpc' = "idle"
    /\ batch' = <<>>
    /\ crops' = <<>>
    /\ ret' = <<>>
    /\ UNCHANGED <<max_len_seq, max_len_pad, dsVars, corpVars>>

----------------------------------------------------------------------------
(* Initial values of the parts a specification does not run *)

DatasetNew ==
    /\ dpc = "new"
    /\ manifest = <<>>
    /\ selected_emos = <<>>
    /\ mode = "train"
    /\ meta = <<>>
    /\ meta_train = <<>>
    /\ meta_val = <<>>
    /\ meta_test = <<>>
    /\ class_weight = <<>>
    /\ len_ret = <<>>
    /\ get_ret = <<>>

CollatorOff ==
    /\ max_len_seq = 0
    /\ max_len_pad = 0
    /\ cpc = "off"
    /\ batch = <<>>
    /\ crops = <<>>
    /\ ret = <<>>

CorpusOff ==
    /\ targetDir_emb = FALSE
    /\ spk2gen = <<>>
    /\ tree = <<>>
    /\ kpc = "off"
    /\ spk = 0
    /\ fidx = 0
    /\ uttr_embs = <<>>
    /\ log = <<>>

----------------------------------------------------------------------------
(* Specification of the collator *)

\* MyCollator.__init__ (lines 109-112): the two sizes come from hparams.
\* min_len_seq is stored as well and never read.
InitCollate ==
    /\ max_len_seq \in 0..MaxLenSeq
    /\ max_len_pad \in 0..MaxLenPad
    /\ cpc = "idle"
    /\ batch = <<>>
    /\ crops = <<>>
    /\ ret = <<>>
    /\ DatasetNew
    /\ CorpusOff

NextCollate == MyCollator_call \/ NextBatch

SpecCollate == InitCollate /\ [][NextCollate]_vars

----------------------------------------------------------------------------
(* Inputs of the dataset: manifests and selections                          *)

\* wav_file identifiers, as strings of characters.  Sessions 01-05 are the
\* corpus' own; "Ses06F" and the short "Ses5" are rows of a foreign manifest.
WavPool ==
    << <<"S", "e", "s", "0", "1", "F">>,
       <<"S", "e", "s", "0", "2", "M">>,
       <<"S", "e", "s", "0", "3", "F">>,
       <<"S", "e", "s", "0", "4", "M">>,
       <<"S", "e", "s", "0", "5", "F">>,
       <<"S", "e", "s", "0", "6", "F">>,
       <<"S", "e", "s", "5">> >>

Emos == {"ang", "hap", "neu"}

SelectedChoices ==
    { <<"neu">>, <<"ang", "neu">>, <<"neu", "ang">>, <<"ang", "hap", "neu">> }

Modes == {"train", "val", "test", "dev"}

\* the k-th smallest element of a finite set of integers, k = 1..|S|
RECURSIVE Kth(_, _)
Kth(S, k) ==
    LET m == CHOOSE x \in S : \A y \in S : x <= y
    IN  IF k = 1 THEN m ELSE Kth(S \ {m}, k - 1)

\* the elements of a finite set of integers in ascending order
SortedSeq(S) == [k \in 1..Cardinality(S) |-> Kth(S, k)]

\* A manifest as read from the csv file: at most MaxRows rows with distinct
\* wav_file, the index labels 0..n-1 of a fresh data frame.
Manifests ==
    { [k \in 1..Cardinality(W) |->
          [index    |-> k - 1,
           wav_file |-> WavPool[SortedSeq(W)[k]],
           emotion  |-> e[SortedSeq(W)[k]]]] :
      W \in {X \in SUBSET (1..Len(WavPool)) : Cardinality(X) <= MaxRows},
      e \in [1..Len(WavPool) -> Emos] }

----------------------------------------------------------------------------
(* IEMOCAP.__init__ and IEMOCAP.preprocess *)

Range(f) == {f[i] : i \in DOMAIN f}

\* line 24: {emo: idx for idx, emo in enumerate(selected_emos)}; a label
\* listed twice keeps its last index
Emo2Idx(sel) ==
    [e \in Range(sel) |->
        (CHOOSE i \in DOMAIN sel :
            sel[i] = e /\ \A k \in DOMAIN sel : sel[k] = e => k <= i) - 1]

\* line 46: meta.loc[meta["emotion"].isin(selected_emos)]
FilterEmos(m, sel) ==
    LET Keep(r) == r.emotion \in Range(sel)
    IN  SelectSeq(m, Keep)

\* line 50: s[3:5]
Session(s) == Slice(s, 3, 5)

\* lines 48-50: the labels replaced by their indices, the session column added
EncodeRows(m, sel) ==
    [i \in 1..Len(m) |->
        [index    |-> m[i].index,
         wav_file |-> m[i].wav_file,
         emotion  |-> Emo2Idx(sel)[m[i].emotion],
         session  |-> Session(m[i].wav_file)]]

\* meta[meta["session"] == ...]; reset_index keeps the rows in order and
\* numbers them 0..n-1 (the position in the sequence, less one), the old label
\* staying in the column "index"
SessionIn(m, sessions) ==
    LET Keep(r) == r.session \in sessions
    IN  SelectSeq(m, Keep)

\* lines 52-56
MetaTrain(m) == SessionIn(m, {<<"0", "1">>, <<"0", "2">>, <<"0", "3">>})

\* MetaVal with session 03 taken into validation as well
MetaValWith03(m) == SessionIn(m, {<<"0", "3">>, <<"0", "4">>})

\* line 57
MetaVal(m) == SessionIn(m, {<<"0", "4">>})

\* line 58
MetaTest(m) == SessionIn(m, {<<"0", "5">>})

\* ComputeClassWeight with the frequency in place of its inverse
ComputeClassWeightFreq(y) ==
    LET classes == SortedSeq(Range(y))
        Count(c) == Cardinality({i \in DOMAIN y : y[i] = c})
    IN  [k \in 1..Len(classes) |->
            [num |-> Len(classes) * Count(classes[k]), den |-> Len(y)]]

\* lines 65-71: compute_class_weight("balanced", classes=np.unique(y), y=y):
\* for the k-th smallest label of y, len(y) / (n_classes * count of the label).
\* The float is kept as the exact fraction num/den.
ComputeClassWeight(y) ==
    LET classes == SortedSeq(Range(y))
        Count(c) == Cardinality({i \in DOMAIN y : y[i] = c})
    IN  [k \in 1..Len(classes) |->
            [num |-> Len(y), den |-> Len(classes) * Count(classes[k])]]

EmotionColumn(m) == [i \in 1..Len(m) |-> m[i].emotion]

\* lines 18-71: the constructor, preprocess() included
IEMOCAP_init ==
    /\ dpc = "new"
    /\ \E sel \in SelectedChoices, md \in Modes, m \in Manifests :
         LET enc == EncodeRows(FilterEmos(m, sel), sel)
         IN  /\ manifest' = m
             /\ selected_emos' = sel
             /\ mode' = md
             /\ meta' = enc
             /\ meta_train' = MetaTrain(enc)
             /\ meta_val' = MetaVal(enc)
             /\ meta_test' = MetaTest(enc)
             /\ class_weight' = ComputeClassWeight(EmotionColumn(MetaTrain(enc)))
    /\ dpc' = "ready"
    /\ UNCHANGED <<len_ret, get_ret, collVars, corpVars>>

\* lines 98-105
LenMeta(md) ==
    IF md = "train" THEN "train" ELSE IF md = "test" THEN "test" ELSE "val"

\* lines 79-84
GetItemMeta(md) ==
    IF md = "train" THEN "train" ELSE IF md = "val" THEN "val" ELSE "test"

Partition(name) ==
    IF name = "train" THEN meta_train
    ELSE IF name = "val" THEN meta_val ELSE meta_test

\* __len__, as the data loader's sampler calls it
IEMOCAP_len ==
    /\ dpc = "ready"
    /\ len_ret' = <<Len(Partition(LenMeta(mode)))>>
    /\ dpc' = "sized"
    /\ UNCHANGED <<manifest, selected_emos, mode, meta, meta_train, meta_val,
                   meta_test, class_weight, get_ret, collVars, corpVars>>

\* __getitem__(index) for an index the sampler drew from range(len(dataset)).
\* meta.loc[index, ...] raises KeyError for a label the partition lacks.
IEMOCAP_getitem ==
    /\ dpc = "sized"
    /\ \E index \in 0..(len_ret[1] - 1) :
         LET part == Partition(GetItemMeta(mode))
         IN  get_ret' =
                 IF index < Len(part)
                 THEN <<[index |-> index, meta |-> GetItemMeta(mode),
                         status |-> "ok", row |-> <<part[index + 1]>>]>>
                 ELSE <<[index |-> index, meta |-> GetItemMeta(mode),
                         status |-> "KeyError", row |-> <<>>]>>
    /\ UNCHANGED <<dpc, manifest, selected_emos, mode, meta, meta_train, meta_val,
                   meta_test, class_weight, len_ret, collVars, corpVars>>

----------------------------------------------------------------------------
(* Specification of the dataset *)

InitIndex == DatasetNew /\ CollatorOff /\ CorpusOff

NextIndex == IEMOCAP_init \/ IEMOCAP_len \/ IEMOCAP_getitem

SpecIndex == InitIndex /\ [][NextIndex]_vars

----------------------------------------------------------------------------
(* Inputs of the corpus build: the tree under rootDir and spk2gen           *)

\* file names, as strings of characters, listed in sorted() order
FilePool ==
    << <<"a", ".", "w", "a", "v">>,
       <<"b", ".", "w", "a", "v">>,
       <<"n", ".", "t", "x", "t">> >>

Genders == <<"M", "F", "X">>

\* (len(S), len(f0_rapt)) of one utterance, as the two extractors give them
FramePairs == { <<2, 2>>, <<3, 3>>, <<2, 3>>, <<3, 2>> }

\* speaker directory "p<k>" is the integer k; a tree maps each speaker
\* directory to the set of files in it (indices into FilePool)
Trees ==
    UNION { [S -> SUBSET (1..Len(FilePool))] : S \in SUBSET (1..MaxSpeakers) }

\* sorted(subdirList), sorted(fileList)
SortedSubdirs == SortedSeq(DOMAIN tree)
SortedFiles(s) == [k \in 1..Cardinality(tree[s]) |-> FilePool[SortedSeq(tree[s])[k]]]

\* fileName[-4:]
Suffix4(name) == Slice(name, Max(Len(name) - 4, 0), Len(name))
\* fileName[:-4]
Stem(name) == Slice(name, 0, Max(Len(name) - 4, 0))

DotWav == <<".", "w", "a", "v">>

----------------------------------------------------------------------------
(* The corpus-build script *)

Event(kind, s, utt, nS, nF0, embs) ==
    [kind |-> kind, spk |-> s, utt |-> utt, nS |-> nS, nF0 |-> nF0, embs |-> embs]

\* LengthCheck switched off
LengthCheckOff(nS, nF0) == TRUE

\* line 88: assert len(S) == len(f0_rapt)
LengthCheck(nS, nF0) == nS = nF0

\* lines 36-55: the head of one iteration of the speaker loop.  Line 43 reads
\* targetDir_emb, which raises NameError when the name is not bound; an
\* entry of spk2gen other than "M" or "F" raises ValueError.
SpeakerSetup ==
    /\ kpc = "speakers"
    /\ spk < Len(SortedSubdirs)
    /\ spk' = spk + 1
    /\ fidx' = 0
    /\ uttr_embs' = <<>>
    /\ kpc' = IF ~targetDir_emb THEN "NameError"
              ELSE IF spk2gen[SortedSubdirs[spk + 1]] \in {"M", "F"} THEN "files"
              ELSE "ValueError"
    /\ UNCHANGED <<targetDir_emb, spk2gen, tree, log, collVars, dsVars>>

\* lines 56-104: one iteration of the file loop
ProcessFile ==
    /\ kpc = "files"
    /\ fidx < Len(SortedFiles(SortedSubdirs[spk]))
    /\ fidx' = fidx + 1
    /\ LET s        == SortedSubdirs[spk]
           fileName == SortedFiles(s)[fidx + 1]
           utt      == Stem(fileName)
       IN  IF Suffix4(fileName) # DotWav
           THEN UNCHANGED <<kpc, uttr_embs, log>>
           ELSE \E fp \in FramePairs :
                  /\ uttr_embs' = Append(uttr_embs, <<s, utt>>)
                  /\ IF LengthCheck(fp[1], fp[2])
                     THEN /\ log' = log \o
                                << Event("extract", s, utt, fp[1], fp[2], <<>>),
                                   Event("spmel", s, utt, fp[1], fp[2], <<>>),
                                   Event("raptf0", s, utt, fp[1], fp[2], <<>>),
                                   Event("emb", s, utt, fp[1], fp[2], <<>>) >>
                          /\ kpc' = kpc
                     ELSE /\ log' = Append(log,
                                       Event("extract", s, utt, fp[1], fp[2], <<>>))
                          /\ kpc' = "AssertionError"
    /\ UNCHANGED <<targetDir_emb, spk2gen, tree, spk, collVars, dsVars>>

\* lines 106-111: the mean of the accumulated embeddings is saved as
\* <subdir>_avg once the file loop is exhausted
SpeakerAverage ==
    /\ kpc = "files"
    /\ fidx = Len(SortedFiles(SortedSubdirs[spk]))
    /\ log' = Append(log, Event("avg", SortedSubdirs[spk], <<>>, 0, 0, uttr_embs))
    /\ kpc' = "speakers"
    /\ UNCHANGED <<targetDir_emb, spk2gen, tree, spk, fidx, uttr_embs,
                   collVars, dsVars>>

\* the speaker loop is exhausted: the script ends
ScriptEnd ==
    /\ kpc = "speakers"
    /\ spk = Len(SortedSubdirs)
    /\ kpc' = "done"
    /\ UNCHANGED <<targetDir_emb, spk2gen, tree, spk, fidx, uttr_embs, log,
                   collVars, dsVars>>

----------------------------------------------------------------------------
(* Specification of the corpus build *)

\* The state after line 34.  targetDir_emb is TRUE when the block of
\* directory names (lines 27-31, "Modify as needed") binds the name and FALSE
\* for the file as it stands, which binds rootDir, targetDir_f0 and targetDir
\* only.
InitCorpus ==
    /\ targetDir_emb \in BOOLEAN
    /\ tree \in Trees
    /\ spk2gen = [k \in 1..(MaxSpeakers + 1) |-> Genders[((k - 1) % Len(Genders)) + 1]]
    /\ kpc = "speakers"
    /\ spk = 0
    /\ fidx = 0
    /\ uttr_embs = <<>>
    /\ log = <<>>
    /\ DatasetNew
    /\ CollatorOff

NextCorpus == SpeakerSetup \/ ProcessFile \/ SpeakerAverage \/ ScriptEnd

SpecCorpus == InitCorpus /\ [][NextCorpus]_vars

----------------------------------------------------------------------------
(* Claims about MyCollator.__call__ *)

InUnit(x) == IF x < 0 THEN 0 ELSE IF x > 1 THEN 1 ELSE x

\* C1: an utterance of L <= max_len_seq frames is not cropped and its
\* returned length is L; one of L > max_len_seq frames has returned length
\* max_len_seq, and its cropped spectrogram and cropped pitch are both the
\* frames [left, left + max_len_seq) of the originals for the same offset
\* left, with 0 <= left and left + max_len_seq <= L.
C1_CropWindow ==
    \A i \in 1..Len(crops) :
        LET L  == Len(batch[i].aa)
            cr == crops[i]
        IN  /\ L <= max_len_seq =>
                  /\ cr.left = NoLeft
                  /\ cr.len_crop = L
                  /\ cr.a = batch[i].aa
                  /\ cr.c = batch[i].c
            /\ L > max_len_seq =>
                  /\ cr.len_crop = max_len_seq
                  /\ 0 <= cr.left
                  /\ cr.left + max_len_seq <= L
                  /\ cr.a = SubSeq(batch[i].aa, cr.left + 1, cr.left + max_len_seq)
                  /\ cr.c = SubSeq(batch[i].c, cr.left + 1, cr.left + max_len_seq)
            /\ cpc = "returned" => ret[1].len_org[i] = cr.len_crop

\* a returned batch holding a token cropped at a non-zero offset and a token
\* that is not cropped
C1_Witness ==
    /\ cpc = "returned"
    /\ \E i \in 1..Len(crops) : crops[i].left > 0 /\ max_len_seq > 0
    /\ \E i \in 1..Len(crops) :
          crops[i].left = NoLeft /\ Len(batch[i].aa) > 0

\* C2: with max_len_pad >= max_len_seq the call never raises, and in the
\* returned batch every spectrogram and every pitch contour has max_len_pad
\* rows: the first len_crop rows are the cropped data (spectrogram clipped to
\* [0,1], pitch unchanged), the other spectrogram rows are zero, the other
\* pitch entries are -1e10, and len_org holds len_crop.
C2_PadToBudget ==
    max_len_pad >= max_len_seq =>
        /\ cpc # "raised"
        /\ cpc = "returned" =>
              \A i \in 1..Len(batch) :
                  LET cr == crops[i]
                      m  == ret[1].melsp[i]
                      p  == ret[1].pitch[i]
                      n  == cr.len_crop
                  IN  /\ Len(m) = max_len_pad
                      /\ Len(p) = max_len_pad
                      /\ \A k \in 1..n :
                            /\ Len(m[k]) = NumMels
                            /\ \A j \in 1..NumMels : m[k][j] = InUnit(cr.a[k][j])
                            /\ p[k] = <<cr.c[k]>>
                      /\ \A k \in (n + 1)..max_len_pad :
                            /\ m[k] = [j \in 1..NumMels |-> 0]
                            /\ p[k] = <<"-1e10">>
                      /\ ret[1].len_org[i] = n

\* a returned batch with a cropped token that is padded and holds a value
\* above 1 and a value below 0
C2_Witness ==
    /\ cpc = "returned"
    /\ max_len_pad >= max_len_seq
    /\ \E i \in 1..Len(batch) :
          /\ crops[i].left # NoLeft
          /\ crops[i].len_crop < max_len_pad
          /\ \E k \in 1..crops[i].len_crop : crops[i].a[k][1] > 1
          /\ \E k \in 1..crops[i].len_crop : crops[i].a[k][1] < 0

\* C7: with max_len_pad < max_len_seq no call returns a batch.
C7_MisconfiguredAlwaysRaises ==
    max_len_pad < max_len_seq => cpc # "returned"

\* C8: for a token of L > max_len_seq frames the offset is drawn from all of
\* 0..L - max_len_seq, the last window included.
C8_EveryWindowPossible ==
    \A i \in 1..Len(crops) :
        Len(batch[i].aa) > max_len_seq =>
            crops[i].choices = 0..(Len(batch[i].aa) - max_len_seq)

----------------------------------------------------------------------------
(* Claims about the IEMOCAP dataset *)

Labels(m) == {m[i].index : i \in DOMAIN m}

NoRowTwice(m) == \A i, k \in DOMAIN m : m[i].index = m[k].index => i = k

PairwiseDisjoint ==
    /\ Labels(meta_train) \cap Labels(meta_val) = {}
    /\ Labels(meta_train) \cap Labels(meta_test) = {}
    /\ Labels(meta_val) \cap Labels(meta_test) = {}
    /\ NoRowTwice(meta_train) /\ NoRowTwice(meta_val) /\ NoRowTwice(meta_test)

InSplit == Labels(meta_train) \cup Labels(meta_val) \cup Labels(meta_test)

\* the rows of the manifest whose label is selected
SelectedRows ==
    {manifest[i].index : i \in {k \in DOMAIN manifest :
        \E j \in DOMAIN selected_emos : selected_emos[j] = manifest[k].emotion}}

\* characters 4 and 5 of the wav_file spell one of 01 .. 05
KnownSession(w) ==
    /\ Len(w) >= 5
    /\ w[4] = "0"
    /\ w[5] \in {"1", "2", "3", "4", "5"}

\* C3 as stated: after preprocess the three partitions are pairwise disjoint
\* and their union is the set of manifest rows with a selected label.
C3_UnionIsFiltered ==
    dpc # "new" => PairwiseDisjoint /\ InSplit = SelectedRows

\* C3 amended: the three partitions are pairwise disjoint and their union is
\* the set of manifest rows with a selected label whose session (characters
\* 4-5 of wav_file) is one of 01 .. 05.
C3_UnionIsFilteredKnownSessions ==
    dpc # "new" =>
        /\ PairwiseDisjoint
        /\ InSplit = {manifest[i].index : i \in {k \in DOMAIN manifest :
                         manifest[k].index \in SelectedRows
                         /\ KnownSession(manifest[k].wav_file)}}

\* train and validation filled, and a selected row dropped for its session
C3_Witness ==
    /\ dpc # "new"
    /\ Len(meta_train) > 0 /\ Len(meta_val) > 0
    /\ Cardinality(InSplit) < Cardinality(SelectedRows)

TrainCount(c) == Cardinality({i \in DOMAIN meta_train : meta_train[i].emotion = c})

TrainClasses == {meta_train[i].emotion : i \in DOMAIN meta_train}

\* the entry of class_weight computed for class c of the train partition
WeightOf(c) == class_weight[Cardinality({d \in TrainClasses : d <= c})]

\* C4: for classes a, b of the train partition, fewer train rows of a than
\* of b give weight(a) > weight(b), equal counts give equal weights, and
\* weight(a) = n_train / (n_classes_present * count(a)).
C4_WeightsDecreaseWithFrequency ==
    dpc # "new" =>
        \A a, b \in TrainClasses :
            /\ TrainCount(a) < TrainCount(b) =>
                  WeightOf(a).num * WeightOf(b).den > WeightOf(b).num * WeightOf(a).den
            /\ TrainCount(a) = TrainCount(b) =>
                  WeightOf(a).num * WeightOf(b).den = WeightOf(b).num * WeightOf(a).den
            /\ WeightOf(a).num * Cardinality(TrainClasses) * TrainCount(a)
                  = Len(meta_train) * WeightOf(a).den

\* a train partition with a class of two rows and a class of one row
C4_Witness ==
    /\ dpc # "new"
    /\ \E a, b \in TrainClasses : TrainCount(a) < TrainCount(b)

\* C9: __len__ counts the rows of the partition __getitem__ reads, so every
\* index below len addresses a row.
C9_LenMatchesGetItem ==
    get_ret # <<>> =>
        /\ len_ret[1] = Len(Partition(get_ret[1].meta))
        /\ get_ret[1].status = "ok"

\* C10: class_weight has one entry per selected emotion, and entry i is the
\* weight of the emotion encoded as i (stated for a train partition that is
\* not empty, where compute_class_weight has labels to count).
C10_WeightPerSelectedEmotion ==
    (dpc # "new" /\ Len(meta_train) > 0) =>
        /\ Len(class_weight) = Len(selected_emos)
        /\ \A i \in 1..Len(selected_emos) :
              class_weight[i].num * Cardinality(TrainClasses) * TrainCount(i - 1)
                  = Len(meta_train) * class_weight[i].den

----------------------------------------------------------------------------
(* Claims about the corpus build *)

UttKinds == {"spmel", "raptf0", "emb"}

\* C5: the three artifacts of an utterance are written only after the check
\* len(S) = len(f0_rapt) has passed for it; when the counts differ none of
\* its artifacts is written and nothing at all is written afterwards, the
\* speaker's average included.
C5_WritesOnlyAfterLengthCheck ==
    /\ \A q \in DOMAIN log :
          log[q].kind \in UttKinds =>
              \E p \in 1..(q - 1) :
                  /\ log[p].kind = "extract"
                  /\ log[p].spk = log[q].spk
                  /\ log[p].utt = log[q].utt
                  /\ log[p].nS = log[p].nF0
                  /\ \A k \in (p + 1)..q :
                        /\ log[k].kind \in UttKinds
                        /\ log[k].spk = log[q].spk
                        /\ log[k].utt = log[q].utt
    /\ \A p \in DOMAIN log :
          (log[p].kind = "extract" /\ log[p].nS # log[p].nF0) =>
              /\ p = Len(log)
              /\ kpc = "AssertionError"

\* the second utterance of the second speaker fails the check after earlier
\* artifacts were written
C5_Witness ==
    /\ kpc = "AssertionError"
    /\ Len(log) > 0
    /\ log[Len(log)].nS # log[Len(log)].nF0
    /\ \E q \in DOMAIN log : log[q].kind = "avg"
    /\ \E q \in DOMAIN log :
          log[q].kind = "emb" /\ log[q].spk = log[Len(log)].spk

IsWav(name) ==
    /\ Len(name) >= 4
    /\ SubSeq(name, Len(name) - 3, Len(name)) = DotWav

WavStems(s) ==
    {SubSeq(FilePool[f], 1, Len(FilePool[f]) - 4) :
        f \in {g \in tree[s] : IsWav(FilePool[g])}}

\* C6: once the script has stopped (other than by the ValueError of an
\* unknown gender or the AssertionError of the length check), every speaker
\* directory the loop entered has exactly one average-embedding artifact,
\* written after all artifacts of that speaker's utterances and before any
\* artifact of a later speaker, and the accumulator it averages holds one
\* embedding per .wav file of that speaker and nothing else.
C6_OneAveragePerSpeaker ==
    kpc \in {"done", "NameError"} =>
        \A i \in 1..spk :
            LET s == SortedSubdirs[i]
                A == {q \in DOMAIN log : log[q].kind = "avg" /\ log[q].spk = s}
            IN  /\ Cardinality(A) = 1
                /\ \A q \in A :
                      /\ \A p \in DOMAIN log :
                            (log[p].spk = s /\ log[p].kind # "avg") => p < q
                      /\ \A p \in DOMAIN log : log[p].spk > s => q < p
                      /\ Len(log[q].embs) = Cardinality(WavStems(s))
                      /\ {log[q].embs[k] : k \in DOMAIN log[q].embs}
                            = {<<s, u>> : u \in WavStems(s)}

====
